---- MODULE Spec2Model ----
(***************************************************************************)
(* Salary inflation calculator: the salary adjustment engine               *)
(* (backend/services/salary_calculator.py) and the CPI resolver            *)
(* (backend/services/inflation_service.py).                                *)
(*                                                                         *)
(* Numbers.  Python floats are modelled as exact rationals <<n, d>> with   *)
(* d > 0, kept in lowest terms; arithmetic is exact.  None is the pair     *)
(* <<0, 0>>, which is no number (its denominator is 0).                    *)
(***************************************************************************)
EXTENDS Integers, Sequences, FiniteSets, TLC

VARIABLES
    request,     \* the InflationRequest being served, or NoRequest
    internal,    \* the locals of calculate_adjusted_salary (unrounded values)
    response,    \* the InflationResponse returned, or NoResponse
    rejection,   \* the fields of the request the request model rejected
    clock,       \* datetime.now() as read by the latest request validation
    invocation,  \* the latest direct call of a CPI function: [fn, args]
    returned,    \* what that call returned, or the exception it raised
    cacheFile,   \* cpi_cache.json: [state, data]
    pc,          \* per caller of get_cpi_data: its position in the call
    key,         \* per caller: the <<start_year, end_year>> of the call
    cached_data, \* per caller: the dict load_from_cache returned (then updated)
    result,      \* per caller: the payload fetched / returned
    path,        \* per caller: how the call ended: hit / remote / fallback
    outcome,     \* per caller: what the remote request of this call did
    saved,       \* per caller: whether save_to_cache completed its write
    repeat,      \* per caller: how the call compares with its previous call
    snap,        \* per caller: keys the store held when the call began
    overlap,     \* per caller: whether the call ran while another caller's did
    lastData,    \* the dict most recently written completely to the store
    calls        \* number of get_cpi_data calls started

calcVars == <<request, internal, response, rejection, clock>>
pureVars == <<invocation, returned>>
cacheVars == <<cacheFile, pc, key, cached_data, result, path, outcome, saved,
               repeat, snap, overlap, lastData, calls>>
vars == <<request, internal, response, rejection, clock, invocation, returned, cacheFile, pc, key, cached_data, result,
          path, outcome, saved, repeat, snap, overlap, lastData, calls>>

None == <<0, 0>>

\* an assignment to a local variable: the rest of the code runs with its value
With(value, Rest(_)) == Rest(value)

(***************************************************************************)
(* Exact rational arithmetic standing for float arithmetic.                *)
(***************************************************************************)
Abs(n) == IF n < 0 THEN -n ELSE n

RECURSIVE GCD(_, _)
GCD(a, b) == IF b = 0 THEN a ELSE GCD(b, a % b)

Norm(x) ==
    LET g == GCD(Abs(x[1]), x[2])
    IN  IF x[1] = 0 THEN <<0, 1>> ELSE <<x[1] \div g, x[2] \div g>>

Whole(n) == <<n, 1>>
Frac(n, d) == Norm(<<n, d>>)
Tenths(n) == Frac(n, 10)

FMul(a, b) ==
    LET g1 == GCD(Abs(a[1]), b[2])
        g2 == GCD(Abs(b[1]), a[2])
    IN  IF a[1] = 0 \/ b[1] = 0 THEN <<0, 1>>
        ELSE <<(a[1] \div g1) * (b[1] \div g2), (a[2] \div g2) * (b[2] \div g1)>>

FDiv(a, b) ==
    IF b[1] > 0 THEN FMul(a, <<b[2], b[1]>>) ELSE FMul(a, <<-b[2], -b[1]>>)

FAdd(a, b) ==
    LET g == GCD(a[2], b[2])
    IN  Norm(<<a[1] * (b[2] \div g) + b[1] * (a[2] \div g), (a[2] \div g) * b[2]>>)

FNeg(a) == <<-a[1], a[2]>>
FSub(a, b) == FAdd(a, FNeg(b))
FLess(a, b) == FSub(a, b)[1] < 0
FLeq(a, b) == FSub(a, b)[1] <= 0

RECURSIVE FPow(_, _)
FPow(a, n) == IF n = 0 THEN <<1, 1>> ELSE FMul(a, FPow(a, n - 1))

\* bool(x) of an Optional[float]: None and 0.0 are both falsy
Truthy(x) == x # None /\ x[1] # 0

\* round(x, digits): round-half-even at 10^-digits
RoundTo(x, scale) ==
    LET whole == x[1] \div x[2]
        rest  == x[1] % x[2]
        q     == (rest * scale) \div x[2]
        r     == (rest * scale) % x[2]
        up    == 2 * r > x[2] \/ (2 * r = x[2] /\ q % 2 = 1)
    IN  Norm(<<whole * scale + q + (IF up THEN 1 ELSE 0), scale>>)

Round2(x) == RoundTo(x, 100)
Round4(x) == RoundTo(x, 10000)

(***************************************************************************)
(* InflationService: the built-in tables and the pure CPI functions.       *)
(***************************************************************************)
current_year == 2024
current_month == 12

\* annual averages, in tenths of an index point
FallbackAnchors ==
    { <<1913, 99>>, <<1920, 200>>, <<1930, 167>>, <<1940, 140>>, <<1950, 241>>,
      <<1960, 296>>, <<1970, 388>>, <<1980, 824>>, <<1990, 1307>>, <<1991, 1362>>,
      <<1995, 1524>>, <<2000, 1722>>, <<2005, 1953>>, <<2010, 2181>>,
      <<2011, 2249>>, <<2012, 2296>>, <<2013, 2330>>, <<2014, 2367>>, <<2015, 2370>>,
      <<2016, 2400>>, <<2017, 2451>>, <<2018, 2511>>, <<2019, 2557>>, <<2020, 2588>>,
      <<2021, 2710>>, <<2022, 2927>>, <<2023, 3070>>, <<2024, 3156>> }

fallback_cpi ==
    [y \in {a[1] : a \in FallbackAnchors} |->
        Tenths((CHOOSE a \in FallbackAnchors : a[1] = y)[2])]

Monthly2014 == <<2339, 2348, 2363, 2371, 2379, 2383, 2383, 2379, 2380, 2374, 2362, 2348>>
Monthly2024 == <<3084, 3103, 3122, 3135, 3141, 3140, 3135, 3147, 3153, 3156, 3152, 3156>>

monthly_cpi_data ==
    [ym \in {2014, 2024} \X (1..12) |->
        Tenths(IF ym[1] = 2014 THEN Monthly2014[ym[2]] ELSE Monthly2024[ym[2]])]

Min(S) == CHOOSE x \in S : \A y \in S : x <= y
Max(S) == CHOOSE x \in S : \A y \in S : y <= x

RECURSIVE sorted(_)
sorted(S) == IF S = {} THEN <<>> ELSE <<Min(S)>> \o sorted(S \ {Min(S)})

DefaultCpi == Whole(250)

\* variant: the loop starts at the second pair of anchors, range(1, len(years) - 1)
InterpolateBetweenSkipsFirstPair(year, table, years) ==
    With({i \in 2..(Len(years) - 1) : years[i] <= year /\ year <= years[i + 1]},
         LAMBDA hits :
    IF hits = {} THEN DefaultCpi
    ELSE With(Min(hits), LAMBDA i :
         With(years[i], LAMBDA y1 :
         With(years[i + 1], LAMBDA y2 :
         With(table[y1], LAMBDA cpi1 :
         With(table[y2], LAMBDA cpi2 :
         With(Frac(year - y1, y2 - y1), LAMBDA ratio :
         FAdd(cpi1, FMul(ratio, FSub(cpi2, cpi1))))))))))

\* variant: the ratio computed with integer division
InterpolateBetweenFloorRatio(year, table, years) ==
    With({i \in 1..(Len(years) - 1) : years[i] <= year /\ year <= years[i + 1]},
         LAMBDA hits :
    IF hits = {} THEN DefaultCpi
    ELSE With(Min(hits), LAMBDA i :
         With(years[i], LAMBDA y1 :
         With(years[i + 1], LAMBDA y2 :
         With(table[y1], LAMBDA cpi1 :
         With(table[y2], LAMBDA cpi2 :
         With(Whole((year - y1) \div (y2 - y1)), LAMBDA ratio :
         FAdd(cpi1, FMul(ratio, FSub(cpi2, cpi1))))))))))

\* the linear-interpolation loop of interpolate_cpi: the first bracketing pair wins
InterpolateBetween(year, table, years) ==
    With({i \in 1..(Len(years) - 1) : years[i] <= year /\ year <= years[i + 1]},
         LAMBDA hits :
    IF hits = {} THEN DefaultCpi
    ELSE With(Min(hits), LAMBDA i :
         With(years[i], LAMBDA y1 :
         With(years[i + 1], LAMBDA y2 :
         With(table[y1], LAMBDA cpi1 :
         With(table[y2], LAMBDA cpi2 :
         With(FDiv(Whole(year - y1), Whole(y2 - y1)), LAMBDA ratio :
         FAdd(cpi1, FMul(ratio, FSub(cpi2, cpi1))))))))))

\* variant: the backward extrapolation multiplies by the growth factor
interpolate_cpi_backward_multiplies(year, table) ==
    IF year \in DOMAIN table THEN table[year]
    ELSE With(sorted(DOMAIN table), LAMBDA years :
         IF year < years[1]
         THEN FMul(table[years[1]], FPow(Frac(103, 100), years[1] - year))
         ELSE IF year > years[Len(years)]
         THEN FMul(table[years[Len(years)]],
                   FPow(Frac(1025, 1000), year - years[Len(years)]))
         ELSE InterpolateBetween(year, table, years))

interpolate_cpi(year, table) ==
    IF year \in DOMAIN table THEN table[year]
    ELSE With(sorted(DOMAIN table), LAMBDA years :
         IF year < years[1]
         THEN FDiv(table[years[1]], FPow(Frac(103, 100), years[1] - year))
         ELSE IF year > years[Len(years)]
         THEN FMul(table[years[Len(years)]],
                   FPow(Frac(1025, 1000), year - years[Len(years)]))
         ELSE InterpolateBetween(year, table, years))

get_annual_cpi(year) ==
    IF year \in DOMAIN fallback_cpi THEN fallback_cpi[year]
    ELSE interpolate_cpi(year, fallback_cpi)

\* variant: the monthly table is not consulted
get_monthly_cpi_annual_only(year, month) ==
    With(get_annual_cpi(year), LAMBDA annual_cpi :
    IF Truthy(annual_cpi) THEN annual_cpi ELSE None)

\* variant: no annual value when the month has no anchor
get_monthly_cpi_without_annual(year, month) ==
    IF <<year, month>> \in DOMAIN monthly_cpi_data
    THEN monthly_cpi_data[<<year, month>>]
    ELSE None

get_monthly_cpi(year, month) ==
    IF <<year, month>> \in DOMAIN monthly_cpi_data
    THEN monthly_cpi_data[<<year, month>>]
    ELSE With(get_annual_cpi(year), LAMBDA annual_cpi :
         IF Truthy(annual_cpi) THEN annual_cpi ELSE None)

calculate_compound_inflation(start_year, end_year) ==
    With(get_annual_cpi(start_year), LAMBDA start_cpi :
    With(get_annual_cpi(end_year), LAMBDA end_cpi :
    IF Truthy(start_cpi) /\ Truthy(end_cpi)
    THEN FDiv(FSub(end_cpi, start_cpi), start_cpi)
    ELSE FMul(Frac(25, 1000), Whole(end_year - start_year))))

\* datetime values are <<year, month, day, seconds after midnight>>
datetime(y, m, d) == <<y, m, d, 0>>

\* datetime.strptime(s, '%Y-%m-%d') of a well-formed date string, written <<y, m, d>>
strptime(s) == datetime(s[1], s[2], s[3])

DateLess(a, b) ==
    \E i \in 1..4 : a[i] < b[i] /\ \A j \in 1..(i - 1) : a[j] = b[j]

\* variant: the reference is the month before current_month
calculate_inflation_rate_previous_month(start_date) ==
    With(strptime(start_date), LAMBDA start_dt :
    With(start_dt[1], LAMBDA start_year :
    With(start_dt[2], LAMBDA start_month :
    With(current_year - start_year, LAMBDA years_elapsed :
    With(get_monthly_cpi(start_year, start_month), LAMBDA start_cpi :
    With(get_monthly_cpi(current_year, current_month - 1), LAMBDA current_cpi :
    IF Truthy(start_cpi) /\ Truthy(current_cpi)
    THEN <<FDiv(FSub(current_cpi, start_cpi), start_cpi), years_elapsed>>
    ELSE <<calculate_compound_inflation(start_year, current_year), years_elapsed>>))))))

\* variant: the rate always comes from calculate_compound_inflation
calculate_inflation_rate_compound_only(start_date) ==
    With(strptime(start_date), LAMBDA start_dt :
    With(start_dt[1], LAMBDA start_year :
    With(current_year - start_year, LAMBDA years_elapsed :
    <<calculate_compound_inflation(start_year, current_year), years_elapsed>>)))

\* variant: years_elapsed counted from the year of datetime.now()
calculate_inflation_rate_wall_clock_years(start_date) ==
    With(strptime(start_date), LAMBDA start_dt :
    With(start_dt[1], LAMBDA start_year :
    With(start_dt[2], LAMBDA start_month :
    With(clock'[1] - start_year, LAMBDA years_elapsed :
    With(get_monthly_cpi(start_year, start_month), LAMBDA start_cpi :
    With(get_monthly_cpi(current_year, current_month), LAMBDA current_cpi :
    IF Truthy(start_cpi) /\ Truthy(current_cpi)
    THEN <<FDiv(FSub(current_cpi, start_cpi), start_cpi), years_elapsed>>
    ELSE <<calculate_compound_inflation(start_year, current_year), years_elapsed>>))))))

\* the result is <<inflation_rate, years_elapsed>>
calculate_inflation_rate(start_date) ==
    With(strptime(start_date), LAMBDA start_dt :
    With(start_dt[1], LAMBDA start_year :
    With(start_dt[2], LAMBDA start_month :
    With(current_year - start_year, LAMBDA years_elapsed :
    With(get_monthly_cpi(start_year, start_month), LAMBDA start_cpi :
    With(get_monthly_cpi(current_year, current_month), LAMBDA current_cpi :
    IF Truthy(start_cpi) /\ Truthy(current_cpi)
    THEN <<FDiv(FSub(current_cpi, start_cpi), start_cpi), years_elapsed>>
    ELSE <<calculate_compound_inflation(start_year, current_year), years_elapsed>>))))))

(***************************************************************************)
(* SalaryCalculator.                                                       *)
(***************************************************************************)
PRE_1991 == "Pre-1991 Employment"
POST_2021 == "Post-2021 Employment"
COLA_PERIOD == "1991-2021 Employment (COLA Period)"

\* each handler returns <<category, cola_adjusted_salary, defacto_paycut, summary>>;
\* the summary is modelled by the wording chosen
handle_pre_1991(start_date, original_salary, inflation_adjusted_salary) ==
    <<PRE_1991, None, None, "worth approximately ... today">>

handle_post_2021(start_date, original_salary, inflation_adjusted_salary) ==
    <<POST_2021, None, None, "worth approximately ... in today's purchasing power">>

\* variant: the threshold tested on original_salary instead of cola_base_salary
handle_cola_threshold_on_original(start_date, original_salary, inflation_adjusted_salary) ==
    With(FAdd(original_salary, Whole(8000)), LAMBDA cola_base_salary :
    With(IF FLeq(Whole(75000), original_salary)
         THEN FAdd(cola_base_salary, Whole(3000))
         ELSE FMul(cola_base_salary, Frac(104, 100)), LAMBDA cola_adjusted_salary :
    With(FSub(inflation_adjusted_salary, cola_adjusted_salary), LAMBDA defacto_paycut :
    With(IF defacto_paycut[1] > 0
         THEN "resulting in a de facto pay cut"
         ELSE "kept pace with or exceeded inflation", LAMBDA summary :
    <<COLA_PERIOD, cola_adjusted_salary, defacto_paycut, summary>>))))

\* variant: a negative de facto pay cut clamped to zero
handle_cola_clamped(start_date, original_salary, inflation_adjusted_salary) ==
    With(FAdd(original_salary, Whole(8000)), LAMBDA cola_base_salary :
    With(IF FLeq(Whole(75000), cola_base_salary)
         THEN FAdd(cola_base_salary, Whole(3000))
         ELSE FMul(cola_base_salary, Frac(104, 100)), LAMBDA cola_adjusted_salary :
    With(FSub(inflation_adjusted_salary, cola_adjusted_salary), LAMBDA diff :
    With(IF diff[1] < 0 THEN Whole(0) ELSE diff, LAMBDA defacto_paycut :
    With(IF defacto_paycut[1] > 0
         THEN "resulting in a de facto pay cut"
         ELSE "kept pace with or exceeded inflation", LAMBDA summary :
    <<COLA_PERIOD, cola_adjusted_salary, defacto_paycut, summary>>)))))

handle_cola_period(start_date, original_salary, inflation_adjusted_salary) ==
    With(FAdd(original_salary, Whole(8000)), LAMBDA cola_base_salary :
    With(IF FLeq(Whole(75000), cola_base_salary)
         THEN FAdd(cola_base_salary, Whole(3000))
         ELSE FMul(cola_base_salary, Frac(104, 100)), LAMBDA cola_adjusted_salary :
    With(FSub(inflation_adjusted_salary, cola_adjusted_salary), LAMBDA defacto_paycut :
    With(IF defacto_paycut[1] > 0
         THEN "resulting in a de facto pay cut"
         ELSE "kept pace with or exceeded inflation", LAMBDA summary :
    <<COLA_PERIOD, cola_adjusted_salary, defacto_paycut, summary>>))))

\* variant: the post-2021 boundary compared with >= instead of >
determine_category_post_inclusive(start_date, original_salary, inflation_adjusted_salary) ==
    LET pre_1991  == datetime(1991, 1, 1)
        post_2021 == datetime(2021, 12, 31)
    IN  IF DateLess(start_date, pre_1991)
        THEN handle_pre_1991(start_date, original_salary, inflation_adjusted_salary)
        ELSE IF ~DateLess(start_date, post_2021)
        THEN handle_post_2021(start_date, original_salary, inflation_adjusted_salary)
        ELSE handle_cola_period(start_date, original_salary, inflation_adjusted_salary)

determine_category_and_calculate(start_date, original_salary, inflation_adjusted_salary) ==
    LET pre_1991  == datetime(1991, 1, 1)
        post_2021 == datetime(2021, 12, 31)
    IN  IF DateLess(start_date, pre_1991)
        THEN handle_pre_1991(start_date, original_salary, inflation_adjusted_salary)
        ELSE IF DateLess(post_2021, start_date)
        THEN handle_post_2021(start_date, original_salary, inflation_adjusted_salary)
        ELSE handle_cola_period(start_date, original_salary, inflation_adjusted_salary)

\* the local variables of calculate_adjusted_salary before the response is built
Computed(req) ==
    With(strptime(req.start_date), LAMBDA start_date :
    With(req.original_salary, LAMBDA original_salary :
    With(calculate_inflation_rate(req.start_date), LAMBDA rate :
    With(FMul(original_salary, FAdd(Whole(1), rate[1])),
         LAMBDA inflation_adjusted_salary :
    With(determine_category_and_calculate(start_date, original_salary,
                                          inflation_adjusted_salary), LAMBDA t :
    [inflation_rate            |-> rate[1],
     years_elapsed             |-> rate[2],
     inflation_adjusted_salary |-> inflation_adjusted_salary,
     category                  |-> t[1],
     cola_adjusted_salary      |-> t[2],
     defacto_paycut            |-> t[3],
     summary                   |-> t[4]])))))

OptionalRound2(x) == IF Truthy(x) THEN Round2(x) ELSE None

\* variant: the rate built like the optional fields, round(x, 4) if x else None
calculate_adjusted_salary_optional_rate(req) ==
    With(Computed(req), LAMBDA c :
    [original_salary           |-> req.original_salary,
     start_date                |-> req.start_date,
     inflation_adjusted_salary |-> Round2(c.inflation_adjusted_salary),
     cola_adjusted_salary      |-> OptionalRound2(c.cola_adjusted_salary),
     defacto_paycut            |-> OptionalRound2(c.defacto_paycut),
     category                  |-> c.category,
     summary                   |-> c.summary,
     inflation_rate            |-> IF Truthy(c.inflation_rate)
                                   THEN Round4(c.inflation_rate) ELSE None,
     years_elapsed             |-> c.years_elapsed])

calculate_adjusted_salary(req) ==
    With(Computed(req), LAMBDA c :
    [original_salary           |-> req.original_salary,
     start_date                |-> req.start_date,
     inflation_adjusted_salary |-> Round2(c.inflation_adjusted_salary),
     cola_adjusted_salary      |-> OptionalRound2(c.cola_adjusted_salary),
     defacto_paycut            |-> OptionalRound2(c.defacto_paycut),
     category                  |-> c.category,
     summary                   |-> c.summary,
     inflation_rate            |-> Round4(c.inflation_rate),
     years_elapsed             |-> c.years_elapsed])

(***************************************************************************)
(* InflationService.get_cpi_data: cache, remote source, fallback.          *)
(***************************************************************************)
cpi_series_id == "CUUR0000SA0"
REQUEST_SUCCEEDED == "REQUEST_SUCCEEDED"

\* str(x) of a number, and float(s)/int(s) of such a string
Str(x) == <<"str", x>>
Float(s) == s[2]

CacheKey(start_year, end_year) == <<start_year, end_year>>

SeriesPayload(status, data) ==
    [status  |-> status,
     Results |-> [series |-> <<[seriesID |-> cpi_series_id, data |-> data]>>]]

\* variant: range(start_year, end_year), which leaves out end_year
get_fallback_cpi_data_exclusive(start_year, end_year) ==
    LET series_data ==
            [i \in 1..(end_year - start_year) |->
                [year   |-> Str(start_year + i - 1),
                 period |-> "M13",
                 value  |-> Str(interpolate_cpi(start_year + i - 1, fallback_cpi))]]
    IN  SeriesPayload(REQUEST_SUCCEEDED, series_data)

get_fallback_cpi_data(start_year, end_year) ==
    LET series_data ==
            [i \in 1..(end_year - start_year + 1) |->
                [year   |-> Str(start_year + i - 1),
                 period |-> "M13",
                 value  |-> Str(interpolate_cpi(start_year + i - 1, fallback_cpi))]]
    IN  SeriesPayload(REQUEST_SUCCEEDED, series_data)

\* dicts are functions on the set of keys present
EmptyDict == [k \in {} |-> None]
Put(d, k, v) == [x \in (DOMAIN d) \cup {k} |-> IF x = k THEN v ELSE d[x]]

NoPayload == SeriesPayload("no payload", <<>>)

\* the store: no file yet, a file opened for writing and not yet written, or a dict
AbsentFile == [state |-> "absent", data |-> EmptyDict]
TruncatedFile == [state |-> "truncated", data |-> EmptyDict]
WrittenFile(d) == [state |-> "ok", data |-> d]

\* load_from_cache: the dict in the file; {} when there is no file, when reading
\* raises (io = "error") and when the content is not JSON (a file being written)
load_from_cache(file, io) ==
    IF io = "ok" /\ file.state = "ok" THEN file.data ELSE EmptyDict

(***************************************************************************)
(* extract_cpi_for_year reads a payload of any shape.  A decoded JSON value *)
(* carries its Python type: None, a number, a str (the text of an int, the  *)
(* text of a float, or other text), a list or a dict.                       *)
(***************************************************************************)
JNull == [type |-> "null"]
JNumber(x) == [type |-> "number", num |-> x]
JText(t) == [type |-> "str", kind |-> "text", text |-> t]
JStrOfInt(i) == [type |-> "str", kind |-> "int", num |-> i]
JStrOfFloat(x) == [type |-> "str", kind |-> "float", num |-> x]
JList(seq) == [type |-> "list", items |-> seq]
JDict(f) == [type |-> "dict", items |-> f]

\* a payload of the model as the decoded JSON value it is
AsJson(payload) ==
    JDict([status  |-> JText(payload.status),
           Results |-> JDict([series |->
               JList([i \in 1..Len(payload.Results.series) |->
                   JDict([seriesID |-> JText(payload.Results.series[i].seriesID),
                          data |->
                       JList([j \in 1..Len(payload.Results.series[i].data) |->
                           JDict([year   |-> JStrOfInt(Float(
                                      payload.Results.series[i].data[j].year)),
                                  period |-> JText(
                                      payload.Results.series[i].data[j].period),
                                  value  |-> JStrOfFloat(Float(
                                      payload.Results.series[i].data[j].value))])])])])])])

\* an expression either has a value or raises
Ok(v) == <<"ok", v>>
Raise(exc) == <<"raise", exc>>

\* the rest of the try block runs with the value, unless the expression raised
Then(r, Rest(_)) == IF r[1] = "ok" THEN Rest(r[2]) ELSE r

\* x[k] for a str k
GetItem(x, k) ==
    IF x.type = "dict"
    THEN (IF k \in DOMAIN x.items THEN Ok(x.items[k]) ELSE Raise("KeyError"))
    ELSE Raise("TypeError")

\* x[i] for an int i >= 0 (the keys of a decoded JSON object are strs)
GetIndex(x, i) ==
    IF x.type = "list"
    THEN (IF i < Len(x.items) THEN Ok(x.items[i + 1]) ELSE Raise("IndexError"))
    ELSE IF x.type = "dict" THEN Raise("KeyError")
    ELSE IF x.type = "str"
    THEN (IF x.kind = "text" /\ x.text = "" THEN Raise("IndexError")
          ELSE Ok(JText("a character")))
    ELSE Raise("TypeError")

\* for ... in x: the elements of a list; the keys of a dict and the characters
\* of a str, which are strs
Iterate(x) ==
    IF x.type = "list" THEN Ok(x.items)
    ELSE IF x.type = "dict"
    THEN Ok([i \in 1..Cardinality(DOMAIN x.items) |-> JText("a key")])
    ELSE IF x.type = "str"
    THEN (IF x.kind = "text" /\ x.text = "" THEN Ok(<<>>)
          ELSE Ok(<<JText("a character")>>))
    ELSE Raise("TypeError")

\* float(v)
ToFloat(v) ==
    IF v.type = "number" THEN Ok(v.num)
    ELSE IF v.type = "str"
    THEN (IF v.kind = "float" THEN Ok(v.num)
          ELSE IF v.kind = "int" THEN Ok(Whole(v.num))
          ELSE Raise("ValueError"))
    ELSE Raise("TypeError")

\* v == str(year), v == 'M13'
EqualsStrOfInt(v, i) == v.type = "str" /\ v.kind = "int" /\ v.num = i
EqualsText(v, t) == v.type = "str" /\ v.kind = "text" /\ v.text = t

\* the for loop of extract_cpi_for_year; falling out of it returns None
RECURSIVE ScanDataPoints(_, _)
ScanDataPoints(points, year) ==
    IF Len(points) = 0 THEN Ok(None)
    ELSE Then(GetItem(Head(points), "year"), LAMBDA y :
         IF ~EqualsStrOfInt(y, year) THEN ScanDataPoints(Tail(points), year)
         ELSE Then(GetItem(Head(points), "period"), LAMBDA period :
              IF ~EqualsText(period, "M13") THEN ScanDataPoints(Tail(points), year)
              ELSE Then(GetItem(Head(points), "value"), LAMBDA value :
                   ToFloat(value))))

\* except (KeyError, IndexError, ValueError)
CaughtByExtract(exc) == exc \in {"KeyError", "IndexError", "ValueError"}

\* <<"return", value or None>>, or <<"raise", exception>>
extract_cpi_for_year(cpi_data, year) ==
    With(Then(GetItem(cpi_data, "Results"), LAMBDA results :
         Then(GetItem(results, "series"), LAMBDA all_series :
         Then(GetIndex(all_series, 0), LAMBDA series :
         Then(GetItem(series, "data"), LAMBDA data :
         Then(Iterate(data), LAMBDA points :
         ScanDataPoints(points, year)))))), LAMBDA attempt :
    IF attempt[1] = "ok" THEN <<"return", attempt[2]>>
    ELSE IF CaughtByExtract(attempt[2]) THEN <<"return", None>>
    ELSE attempt)

(***************************************************************************)
(* The remote source.  A request either raises, or answers with a body     *)
(* the code cannot use, or answers with a success payload; two successful  *)
(* answers for the same range may differ (Revisions).                      *)
(***************************************************************************)
\* the revisions of the published series a successful answer may carry
Revisions == {1, 2}

RemoteData(start_year, end_year, rev) ==
    [i \in 1..(end_year - start_year + 1) |->
        [year   |-> Str(start_year + i - 1),
         period |-> "M13",
         value  |-> Str(Tenths(3000 + rev))]]

RemoteSuccess(start_year, end_year, rev) ==
    SeriesPayload(REQUEST_SUCCEEDED, RemoteData(start_year, end_year, rev))

\* the exception each failing remote outcome raises inside the try block
RemoteFailures ==
    { "ConnectionError",   \* requests.post: network error
      "Timeout",           \* requests.post: timeout=10 expired
      "HTTPError",         \* raise_for_status: non-success HTTP status
      "JSONDecodeError",   \* response.json(): body is not JSON
      "TypeError",         \* result['status']: body is JSON but no object
      "KeyError",          \* result['status']: object without 'status'
      "BLS API error" }    \* status other than REQUEST_SUCCEEDED: raise Exception

\* variant: except requests.RequestException
CatchesRequestErrorsOnly(exc) == exc \in {"ConnectionError", "Timeout", "HTTPError"}

\* except Exception as e
HandlerCatches(exc) == exc \in RemoteFailures

(***************************************************************************)
(* InflationRequest: validation of a request body.  A date string is the   *)
(* tuple of the numbers it spells.                                         *)
(***************************************************************************)
DaysInMonth(y, m) ==
    IF m = 2 THEN (IF (y % 4 = 0 /\ y % 100 # 0) \/ y % 400 = 0 THEN 29 ELSE 28)
    ELSE IF m \in {4, 6, 9, 11} THEN 30 ELSE 31

\* the string matches '%Y-%m-%d'
MatchesFormat(v) ==
    /\ Len(v) = 3
    /\ v[1] \in 0..9999 /\ v[2] \in 1..12 /\ v[3] \in 1..31

\* variant: no lower limit on the year
validate_date_without_1913(v, now) ==
    IF ~MatchesFormat(v) THEN <<"ValueError", "Date must be in YYYY-MM-DD format">>
    ELSE IF v[1] = 0 \/ v[3] > DaysInMonth(v[1], v[2])
    THEN <<"ValueError", "out of range">>
    ELSE IF DateLess(now, strptime(v))
    THEN <<"ValueError", "Start date cannot be in the future">>
    ELSE <<"ok", v>>

\* the validator of start_date: <<"ok", v>>, or the ValueError it raises
validate_date(v, now) ==
    IF ~MatchesFormat(v) THEN <<"ValueError", "Date must be in YYYY-MM-DD format">>
    ELSE IF v[1] = 0 \/ v[3] > DaysInMonth(v[1], v[2])
    THEN <<"ValueError", "out of range">>
    ELSE IF DateLess(now, strptime(v))
    THEN <<"ValueError", "Start date cannot be in the future">>
    ELSE IF v[1] < 1913
    THEN <<"ValueError", "Start date cannot be before 1913 (CPI data not available)">>
    ELSE <<"ok", v>>

\* the fields of a request body that fail validation
InflationRequestErrors(raw, now) ==
    (IF validate_date(raw.start_date, now)[1] = "ok" THEN {} ELSE {"start_date"})
    \cup (IF raw.original_salary[1] > 0 THEN {} ELSE {"original_salary"})

NoInvocation == [fn |-> "none", args |-> <<>>, done |-> FALSE]

(***************************************************************************)
(* Inputs.                                                                 *)
(***************************************************************************)
\* get_cpi_data calls explored in one behaviour
MaxCalls == 3

Callers == {"A", "B"}

\* the <<start_year, end_year>> ranges callers ask for
Ranges == {<<2023, 2024>>, <<2024, 2025>>}

IoOutcomes == {"ok", "error"}

\* start dates, <<year, month, day>>, all valid: 1913 or later and not in the future
Dates ==
    { <<1913, 1, 1>>, <<1980, 6, 15>>, <<1990, 12, 31>>, <<1991, 1, 1>>,
      <<1992, 7, 1>>, <<1995, 3, 15>>, <<2000, 1, 15>>, <<2010, 7, 1>>,
      <<2014, 8, 1>>, <<2016, 1, 1>>, <<2021, 12, 31>>, <<2022, 1, 1>>,
      <<2024, 12, 1>> }

\* salaries in dollars, all > 0
Salaries ==
    { Whole(30000), Whole(35000), Whole(50000), Whole(57500), Whole(66999),
      Whole(67000), Whole(70000), Whole(75000), <<20001, 20>>, <<332800, 11>> }

Requests == [start_date : Dates, original_salary : Salaries]

\* datetime.now() at the moments requests arrive: <<year, month, day, seconds>>
Nows == { <<2024, 12, 15, 43200>>, <<2026, 11, 3, 43200>> }

\* request bodies as they arrive, before validation: the requests above, dates
\* after the reference period, and bodies the request model has to reject
\* (<<2020, 1>> is a string that is no YYYY-MM-DD date at all)
RawRequests ==
    Requests
    \cup [start_date : { <<2025, 6, 1>>, <<2026, 11, 3>>, <<2026, 11, 4>>,
                         <<1912, 12, 31>>, <<2020, 13, 1>>, <<2021, 2, 30>>,
                         <<2020, 1>> },
          original_salary : { Whole(50000) }]
    \cup [start_date : { <<2000, 1, 15>>, <<1912, 12, 31>> },
          original_salary : { Whole(0), Whole(-1000) }]

\* years beyond either end of the anchor table (1913..2024) that are explored
MaxExtrapolation == 2

Years == (1913 - MaxExtrapolation)..(2024 + MaxExtrapolation)
Months == 1..12

\* <<start_year, end_year>> given to get_fallback_cpi_data, one of them reversed
FallbackRanges ==
    { <<2023, 2024>>, <<2024, 2025>>, <<1990, 1995>>, <<1912, 1913>>,
      <<2024, 2024>>, <<2025, 2023>> }

\* payloads in the provider's shape
DataPoint(year, period, value) == JDict([year |-> year, period |-> period, value |-> value])
ShapedPayload(data) ==
    JDict([status  |-> JText(REQUEST_SUCCEEDED),
           Results |-> JDict([series |->
               JList(<<JDict([seriesID |-> JText(cpi_series_id), data |-> data])>>)])])

WellFormedPayloads ==
    { AsJson(get_fallback_cpi_data(r[1], r[2])) : r \in FallbackRanges }
    \cup { AsJson(RemoteSuccess(2023, 2024, 1)) }

\* payloads that do not have the provider's shape, or lack the year 2024
MismatchedPayloads ==
    { JDict([status |-> JText("REQUEST_FAILED")]),
      JDict([Results |-> JDict([status |-> JText("no series")])]),
      JDict([Results |-> JDict([series |-> JList(<<>>)])]),
      JDict([Results |-> JDict([series |->
                 JList(<<JDict([seriesID |-> JText(cpi_series_id)])>>)])]),
      ShapedPayload(JList(<<JDict([period |-> JText("M13"),
                                   value |-> JStrOfFloat(Tenths(3156))])>>)),
      ShapedPayload(JList(<<JDict([year |-> JStrOfInt(2024),
                                   value |-> JStrOfFloat(Tenths(3156))])>>)),
      ShapedPayload(JList(<<JDict([year |-> JStrOfInt(2024),
                                   period |-> JText("M13")])>>)),
      ShapedPayload(JList(<<DataPoint(JStrOfInt(2024), JText("M13"), JText("-"))>>)),
      ShapedPayload(JList(<<DataPoint(JStrOfInt(2023), JText("M13"),
                                      JStrOfFloat(Tenths(3070)))>>)),
      ShapedPayload(JList(<<DataPoint(JStrOfInt(2024), JText("M12"),
                                      JStrOfFloat(Tenths(3152)))>>)),
      ShapedPayload(JList(<<DataPoint(JNumber(Whole(2024)), JText("M13"),
                                      JStrOfFloat(Tenths(3156)))>>)),
      ShapedPayload(JList(<<>>)),
      JNull,
      JList(<<>>),
      JDict([Results |-> JNull]),
      JDict([Results |-> JList(<<>>)]),
      JDict([Results |-> JDict([series |-> JNull])]),
      JDict([Results |-> JDict([series |-> JDict([status |-> JText("no list")])])]),
      JDict([Results |-> JDict([series |-> JText("no list")])]),
      JDict([Results |-> JDict([series |-> JList(<<JNull>>)])]),
      JDict([Results |-> JDict([series |-> JList(<<JList(<<>>)>>)])]),
      ShapedPayload(JNull),
      ShapedPayload(JDict([year |-> JStrOfInt(2024)])),
      ShapedPayload(JText("no list")),
      ShapedPayload(JList(<<JNull>>)),
      ShapedPayload(JList(<<JStrOfInt(2024)>>)),
      ShapedPayload(JList(<<DataPoint(JStrOfInt(2024), JText("M13"), JNull)>>)),
      ShapedPayload(JList(<<DataPoint(JStrOfInt(2024), JText("M13"), JList(<<>>))>>)) }

\* the direct calls of the CPI functions that are explored
Invocations ==
    [fn : {"interpolate_cpi"}, args : {<<y>> : y \in Years}, done : {FALSE}]
    \cup [fn : {"get_monthly_cpi"}, args : Years \X Months, done : {FALSE}]
    \cup [fn : {"get_fallback_cpi_data"}, args : FallbackRanges, done : {FALSE}]
    \cup [fn : {"extract_cpi_for_year"},
          args : (WellFormedPayloads \cup MismatchedPayloads) \X {2024},
          done : {FALSE}]

NoRequest == [start_date |-> <<0, 0, 0>>, original_salary |-> None]

NoComputed ==
    [inflation_rate |-> None, years_elapsed |-> 0, inflation_adjusted_salary |-> None,
     category |-> "", cola_adjusted_salary |-> None, defacto_paycut |-> None,
     summary |-> ""]

NoResponse ==
    [original_salary |-> None, start_date |-> <<0, 0, 0>>,
     inflation_adjusted_salary |-> None, cola_adjusted_salary |-> None,
     defacto_paycut |-> None, category |-> "", summary |-> "",
     inflation_rate |-> None, years_elapsed |-> 0]

(***************************************************************************)
(* State machine.                                                          *)
(***************************************************************************)
ServiceInit ==
    /\ request = NoRequest
    /\ internal = NoComputed
    /\ response = NoResponse
    /\ rejection = {}
    /\ clock = <<2024, 12, 15, 43200>>
    /\ cacheFile = AbsentFile
    /\ pc = [p \in Callers |-> "idle"]
    /\ key = [p \in Callers |-> <<0, 0>>]
    /\ cached_data = [p \in Callers |-> EmptyDict]
    /\ result = [p \in Callers |-> NoPayload]
    /\ path = [p \in Callers |-> "none"]
    /\ outcome = [p \in Callers |-> "none"]
    /\ saved = [p \in Callers |-> FALSE]
    /\ repeat = [p \in Callers |-> "first"]
    /\ snap = [p \in Callers |-> {}]
    /\ overlap = [p \in Callers |-> FALSE]
    /\ lastData = EmptyDict
    /\ calls = 0

Init ==
    /\ ServiceInit
    /\ invocation = NoInvocation
    /\ returned = None

\* variant: the reference index is taken from the cached series when the store
\* holds one for the reference year
CalculateFromStore(req) ==
    /\ request' = req
    /\ internal' = Computed(req)
    /\ response' =
           With(CacheKey(current_year - 1, current_year), LAMBDA k :
           IF cacheFile.state = "ok" /\ k \in DOMAIN cacheFile.data
           THEN With(extract_cpi_for_year(AsJson(cacheFile.data[k]), current_year)[2],
                     LAMBDA current_cpi :
                With(get_monthly_cpi(req.start_date[1], req.start_date[2]),
                     LAMBDA start_cpi :
                [calculate_adjusted_salary(req) EXCEPT
                    !.inflation_rate =
                        Round4(FDiv(FSub(current_cpi, start_cpi), start_cpi))]))
           ELSE calculate_adjusted_salary(req))
    /\ rejection' = {}
    /\ UNCHANGED <<cacheVars, pureVars>>

\* POST /calculate-inflation with a validated request
Calculate(req) ==
    /\ request' = req
    /\ internal' = Computed(req)
    /\ response' = calculate_adjusted_salary(req)
    /\ rejection' = {}
    /\ UNCHANGED <<cacheVars, pureVars>>

\* the request model refuses the body: the route function is not called
Reject(raw, errors) ==
    /\ request' = raw
    /\ internal' = NoComputed
    /\ response' = NoResponse
    /\ rejection' = errors
    /\ UNCHANGED <<cacheVars, pureVars>>

\* a request body arrives at POST /calculate-inflation at time now
Post(raw, now) ==
    /\ ~DateLess(now, clock)
    /\ clock' = now
    /\ IF InflationRequestErrors(raw, now) = {}
       THEN Calculate(raw)
       ELSE Reject(raw, InflationRequestErrors(raw, now))

\* variant: the lookup never finds the key
CacheHitNever(d, k) == FALSE

\* if cache_key in cached_data
CacheHit(d, k) == k \in DOMAIN d

\* variant: the fetched payload is not put into the dict that is saved
StoreResultSkipped(d, k, v) == d

\* cached_data[cache_key] = result
StoreResult(d, k, v) == Put(d, k, v)

\* the caller is inside get_cpi_data
InCall(p) == pc[p] \in {"post", "save", "dump"}

\* how a call for key k that loaded dict d compares with the caller's previous
\* call: "first" when that one was for another key (or there was none), "same" when
\* it returns the same payload from the store, "differs" when it returns another
\* payload from the store, "refetch" when it goes to the remote source again
Compare(p, k, d) ==
    IF ~(pc[p] = "returned" /\ key[p] = k) THEN "first"
    ELSE IF ~CacheHit(d, k) THEN "refetch"
    ELSE IF d[k] = result[p] THEN "same"
    ELSE "differs"

\* get_cpi_data up to the remote request: load the store, return on a hit
Call(p, r, io) ==
    /\ pc[p] \in {"idle", "returned", "raised"}
    /\ calls < MaxCalls
    /\ calls' = calls + 1
    /\ LET d == load_from_cache(cacheFile, io)
           k == CacheKey(r[1], r[2])
       IN  /\ key' = [key EXCEPT ![p] = k]
           /\ repeat' = [repeat EXCEPT ![p] = Compare(p, k, d)]
           /\ IF CacheHit(d, k)
              THEN /\ result' = [result EXCEPT ![p] = d[k]]
                   /\ cached_data' = [cached_data EXCEPT ![p] = EmptyDict]
                   /\ pc' = [pc EXCEPT ![p] = "returned"]
                   /\ path' = [path EXCEPT ![p] = "hit"]
              ELSE /\ result' = [result EXCEPT ![p] = NoPayload]
                   /\ cached_data' = [cached_data EXCEPT ![p] = d]
                   /\ pc' = [pc EXCEPT ![p] = "post"]
                   /\ path' = [path EXCEPT ![p] = "none"]
    /\ snap' = [snap EXCEPT ![p] = DOMAIN lastData]
    /\ overlap' = [q \in Callers |->
                       IF q = p THEN \E o \in Callers \ {p} : InCall(o)
                       ELSE InCall(q) \/ overlap[q]]
    /\ outcome' = [outcome EXCEPT ![p] = "none"]
    /\ saved' = [saved EXCEPT ![p] = FALSE]
    /\ UNCHANGED <<cacheFile, lastData, calcVars, pureVars>>

\* the remote request answers with a success payload
PostSucceeds(p, rev) ==
    /\ pc[p] = "post"
    /\ LET res == RemoteSuccess(key[p][1], key[p][2], rev)
       IN  /\ result' = [result EXCEPT ![p] = res]
           /\ cached_data' = [cached_data EXCEPT ![p] = StoreResult(@, key[p], res)]
    /\ outcome' = [outcome EXCEPT ![p] = REQUEST_SUCCEEDED]
    /\ pc' = [pc EXCEPT ![p] = "save"]
    /\ UNCHANGED <<cacheFile, key, path, saved, repeat, snap, overlap, lastData, calls, calcVars, pureVars>>

\* variant: the synthesized payload is stored under the call's key
PostFailsCachesFallback(p, exc) ==
    /\ pc[p] = "post"
    /\ outcome' = [outcome EXCEPT ![p] = exc]
    /\ LET res == get_fallback_cpi_data(key[p][1], key[p][2])
       IN  /\ result' = [result EXCEPT ![p] = res]
           /\ cacheFile' = WrittenFile(StoreResult(cached_data[p], key[p], res))
           /\ lastData' = StoreResult(cached_data[p], key[p], res)
    /\ cached_data' = [cached_data EXCEPT ![p] = EmptyDict]
    /\ pc' = [pc EXCEPT ![p] = "returned"]
    /\ path' = [path EXCEPT ![p] = "fallback"]
    /\ UNCHANGED <<key, saved, repeat, snap, overlap, calls, calcVars, pureVars>>

\* the remote request fails: exc is raised inside the try block
PostFails(p, exc) ==
    /\ pc[p] = "post"
    /\ outcome' = [outcome EXCEPT ![p] = exc]
    /\ cached_data' = [cached_data EXCEPT ![p] = EmptyDict]
    /\ IF HandlerCatches(exc)
       THEN /\ result' = [result EXCEPT ![p] = get_fallback_cpi_data(key[p][1], key[p][2])]
            /\ pc' = [pc EXCEPT ![p] = "returned"]
            /\ path' = [path EXCEPT ![p] = "fallback"]
       ELSE /\ result' = [result EXCEPT ![p] = NoPayload]
            /\ pc' = [pc EXCEPT ![p] = "raised"]
            /\ path' = [path EXCEPT ![p] = "raised"]
    /\ UNCHANGED <<cacheFile, key, saved, repeat, snap, overlap, lastData, calls, calcVars, pureVars>>

\* save_to_cache, open(cache_file, 'w'): the file is emptied; an error is swallowed
\* and get_cpi_data returns the fetched payload
SaveOpen(p, io) ==
    /\ pc[p] = "save"
    /\ IF io = "ok"
       THEN /\ cacheFile' = TruncatedFile
            /\ pc' = [pc EXCEPT ![p] = "dump"]
            /\ UNCHANGED <<path, cached_data>>
       ELSE /\ cacheFile' = cacheFile
            /\ pc' = [pc EXCEPT ![p] = "returned"]
            /\ path' = [path EXCEPT ![p] = "remote"]
            /\ cached_data' = [cached_data EXCEPT ![p] = EmptyDict]
    /\ UNCHANGED <<key, result, outcome, saved, repeat, snap, overlap, lastData, calls, calcVars, pureVars>>

\* save_to_cache, json.dump and close: the whole dict replaces the file's content;
\* get_cpi_data returns the fetched payload
SaveDump(p) ==
    /\ pc[p] = "dump"
    /\ cacheFile' = WrittenFile(cached_data[p])
    /\ lastData' = cached_data[p]
    /\ cached_data' = [cached_data EXCEPT ![p] = EmptyDict]
    /\ saved' = [saved EXCEPT ![p] = TRUE]
    /\ pc' = [pc EXCEPT ![p] = "returned"]
    /\ path' = [path EXCEPT ![p] = "remote"]
    /\ UNCHANGED <<key, result, outcome, repeat, snap, overlap, calls, calcVars, pureVars>>

Next == \E raw \in RawRequests, now \in Nows : Post(raw, now)

Spec == Init /\ [][Next]_vars

CacheNext ==
    \E p \in Callers :
        \/ \E r \in Ranges, io \in IoOutcomes : Call(p, r, io)
        \/ \E rev \in Revisions : PostSucceeds(p, rev)
        \/ \E exc \in RemoteFailures : PostFails(p, exc)
        \/ \E io \in IoOutcomes : SaveOpen(p, io)
        \/ SaveDump(p)

CacheSpec == Init /\ [][CacheNext]_vars

(***************************************************************************)
(* The CPI functions called directly, one call per behaviour.              *)
(***************************************************************************)
CpiInit ==
    /\ ServiceInit
    /\ invocation \in Invocations
    /\ returned = None

Pending(fn) == invocation.fn = fn /\ ~invocation.done

InterpolateCpi ==
    /\ Pending("interpolate_cpi")
    /\ invocation' = [invocation EXCEPT !.done = TRUE]
    /\ returned' = interpolate_cpi(invocation.args[1], fallback_cpi)
    /\ UNCHANGED <<calcVars, cacheVars>>

GetMonthlyCpi ==
    /\ Pending("get_monthly_cpi")
    /\ invocation' = [invocation EXCEPT !.done = TRUE]
    /\ returned' = get_monthly_cpi(invocation.args[1], invocation.args[2])
    /\ UNCHANGED <<calcVars, cacheVars>>

GetFallbackCpiData ==
    /\ Pending("get_fallback_cpi_data")
    /\ invocation' = [invocation EXCEPT !.done = TRUE]
    /\ returned' = get_fallback_cpi_data(invocation.args[1], invocation.args[2])
    /\ UNCHANGED <<calcVars, cacheVars>>

ExtractCpiForYear ==
    /\ Pending("extract_cpi_for_year")
    /\ invocation' = [invocation EXCEPT !.done = TRUE]
    /\ returned' = extract_cpi_for_year(invocation.args[1], invocation.args[2])
    /\ UNCHANGED <<calcVars, cacheVars>>

CpiNext == InterpolateCpi \/ GetMonthlyCpi \/ GetFallbackCpiData \/ ExtractCpiForYear

CpiSpec == CpiInit /\ [][CpiNext]_vars

(***************************************************************************)
(* Properties of the salary adjustment engine (checked under Spec).        *)
(***************************************************************************)
Answered == response # NoResponse
MiddleRegime == Answered /\ response.category = COLA_PERIOD

\* days are ordered as their <<year, month, day>> read as one number
Ordinal(d) == d[1] * 10000 + d[2] * 100 + d[3]

\* C1: in every result, cola_adjusted_salary and defacto_paycut are both non-null
\* if and only if the category is the COLA regime (also when the de facto pay cut
\* is exactly zero), and both are null in every pre-1991 and post-2021 result.
C1_ColaFieldsIffColaRegime ==
    Answered =>
        /\ (response.category = COLA_PERIOD) <=>
               (response.cola_adjusted_salary # None /\ response.defacto_paycut # None)
        /\ response.category # COLA_PERIOD =>
               (response.cola_adjusted_salary = None /\ response.defacto_paycut = None)

\* C2: the classification is total and exclusive: every start date gets exactly
\* one category, pre iff it is before 1991-01-01, post iff it is after 2021-12-31,
\* the COLA regime otherwise; 1991-01-01 and 2021-12-31 are COLA, 1990-12-31 is
\* pre and 2022-01-01 is post.
C2_ClassificationTotalExclusive ==
    Answered =>
        LET d == Ordinal(request.start_date)
        IN  /\ response.category \in {PRE_1991, COLA_PERIOD, POST_2021}
            /\ (response.category = PRE_1991) <=> (d < 19910101)
            /\ (response.category = POST_2021) <=> (d > 20211231)
            /\ (response.category = COLA_PERIOD) <=> (19910101 <= d /\ d <= 20211231)
            /\ request.start_date = <<1991, 1, 1>> => response.category = COLA_PERIOD
            /\ request.start_date = <<2021, 12, 31>> => response.category = COLA_PERIOD
            /\ request.start_date = <<1990, 12, 31>> => response.category = PRE_1991
            /\ request.start_date = <<2022, 1, 1>> => response.category = POST_2021

\* witness of C2: the last day of the COLA period has been classified
C2_Witness == Answered /\ request.start_date = <<2021, 12, 31>>

\* C3: in the middle regime, with cola_base = original_salary + 8000, the COLA
\* adjusted salary is cola_base + 3000 when cola_base >= 75000 and
\* cola_base * 1.04 otherwise; 67000 gives 78000 and 66999 gives 77998.96.
C3_ColaThreshold ==
    MiddleRegime =>
        LET cola_base == FAdd(request.original_salary, Whole(8000))
        IN  /\ cola_base[1] >= 75000 * cola_base[2] =>
                   internal.cola_adjusted_salary = FAdd(cola_base, Whole(3000))
            /\ cola_base[1] < 75000 * cola_base[2] =>
                   internal.cola_adjusted_salary = FMul(cola_base, Frac(26, 25))
            /\ request.original_salary = Whole(67000) =>
                   response.cola_adjusted_salary = Whole(78000)
            /\ request.original_salary = Whole(66999) =>
                   response.cola_adjusted_salary = Frac(7799896, 100)

\* witness of C3: a middle-regime request above the threshold, where
\* original_salary itself is below 75000
C3_Witness ==
    MiddleRegime /\ request.original_salary = Whole(70000)
                 /\ response.cola_adjusted_salary = Whole(81000)

ServiceCalls == 2

\* the request bodies posted: two valid ones and one the request model rejects
ServiceRequests ==
    [start_date : { <<2014, 8, 1>>, <<2016, 1, 1>>, <<1912, 12, 31>> },
     original_salary : { Whole(57500) }]

\* the one caller of get_cpi_data next to the endpoint
ServiceCaller == "A"

ServiceNext ==
    \/ \E r \in Ranges, io \in IoOutcomes :
           Call(ServiceCaller, r, io) /\ calls' <= ServiceCalls
    \/ \E rev \in Revisions : PostSucceeds(ServiceCaller, rev)
    \/ \E exc \in RemoteFailures : PostFails(ServiceCaller, exc)
    \/ \E io \in IoOutcomes : SaveOpen(ServiceCaller, io)
    \/ SaveDump(ServiceCaller)
    \/ \E raw \in ServiceRequests : Post(raw, clock)

ServiceSpec == Init /\ [][ServiceNext]_vars

(***************************************************************************)
(* Properties of get_cpi_data (checked under CacheSpec).                   *)
(***************************************************************************)
Returned(p) == pc[p] = "returned"
Stored(k) == cacheFile.state = "ok" /\ k \in DOMAIN cacheFile.data
DataOf(payload) == payload.Results.series[1].data

\* C5: a failed remote request never surfaces: whatever the request raises
\* (network error, timeout, HTTP status, body that is not JSON, body without
\* 'status', status other than REQUEST_SUCCEEDED), get_cpi_data raises nothing
\* and returns the synthesized fallback payload for the requested range.
C5_FetchFailureNeverSurfaces ==
    \A p \in Callers :
        /\ pc[p] # "raised"
        /\ outcome[p] \in RemoteFailures =>
               /\ Returned(p)
               /\ path[p] = "fallback"
               /\ result[p] = get_fallback_cpi_data(key[p][1], key[p][2])
               /\ result[p].status = REQUEST_SUCCEEDED
               /\ Len(DataOf(result[p])) = key[p][2] - key[p][1] + 1

\* witness of C5: a response without 'status' has ended in the fallback payload
C5_Witness ==
    \E p \in Callers :
        outcome[p] = "KeyError" /\ Returned(p) /\ result[p] # NoPayload

\* C6 as claimed: whatever the remote source does, the second of two successive
\* calls for a key returns the payload the first returned and does no remote
\* fetch.
C6_SecondCallIdenticalNoFetch ==
    \A p \in Callers : repeat[p] \in {"first", "same"}

\* C6 as amended: a call that finds its key in the dict it loaded from the store
\* returns exactly that entry and does no remote fetch; so the second of two
\* successive calls for a key returns the first one's payload without a fetch
\* whenever the store still holds that payload and is read back.  (After a call
\* that ended on the fallback path, or whose write failed, the next call for the
\* key fetches again.)
C6_HitReturnsStoredNoFetch ==
    [][\A p \in Callers, r \in Ranges, io \in IoOutcomes :
          LET k == CacheKey(r[1], r[2])
              d == load_from_cache(cacheFile, io)
          IN  Call(p, r, io) /\ k \in DOMAIN d =>
                  /\ pc'[p] = "returned"
                  /\ result'[p] = d[k]
                  /\ outcome'[p] = "none"
                  /\ (Returned(p) /\ key[p] = k /\ d[k] = result[p]) =>
                         (repeat'[p] = "same" /\ result'[p] = result[p])]_vars

\* witness of C6: a caller's second call for a key was served from the store with
\* the payload its first call fetched
C6_Witness ==
    \E p \in Callers :
        Returned(p) /\ repeat[p] = "same" /\ path[p] = "hit" /\ result[p] # NoPayload

\* two callers whose latest calls ran concurrently, both fetched successfully and
\* both completed their write
BothWrote(p, q) ==
    /\ p # q
    /\ Returned(p) /\ Returned(q)
    /\ overlap[p] /\ overlap[q]
    /\ path[p] = "remote" /\ path[q] = "remote"
    /\ saved[p] /\ saved[q]

\* C7: concurrent calls for different missing keys are independent: when both
\* fetches succeed, the store afterwards holds both keys' entries.
C7_DistinctKeysIndependent ==
    \A p, q \in Callers :
        BothWrote(p, q) /\ key[p] # key[q] => Stored(key[p]) /\ Stored(key[q])

\* C8: concurrent calls for the same missing key race benignly: afterwards the
\* store holds for the key one of the two fetched payloads, every entry for
\* another key that was stored before the two calls is still there, and each
\* caller has returned a success payload.
C8_SameKeyRaceBenign ==
    \A p, q \in Callers :
        BothWrote(p, q) /\ key[p] = key[q] =>
            /\ Stored(key[p])
            /\ cacheFile.data[key[p]] \in {result[p], result[q]}
            /\ \A k \in (snap[p] \cap snap[q]) \ {key[p]} : Stored(k)
            /\ result[p].status = REQUEST_SUCCEEDED
            /\ result[q].status = REQUEST_SUCCEEDED

\* a caller returns from get_cpi_data with a successfully fetched payload
ReturnsFetched(p) ==
    pc[p] # "returned" /\ pc'[p] = "returned" /\ outcome'[p] = REQUEST_SUCCEEDED

C10_AppendOnlyPerKey ==
    [][\A k \in DOMAIN lastData :
          /\ k \in DOMAIN lastData'
          /\ lastData'[k] # lastData[k] =>
                 \E p \in Callers : pc[p] = "dump" /\ key[p] = k /\ pc'[p] = "returned"]_vars


(***************************************************************************)
(* Properties of the rate, of availability and of validation (Spec).       *)
(***************************************************************************)
\* a float, as opposed to None
Numeric(x) == x # None /\ x[2] > 0

C12_ValidRequestAlwaysAnswered ==
    (request # NoRequest /\ rejection = {}) =>
        /\ Answered
        /\ Numeric(internal.inflation_rate)
        /\ Numeric(internal.inflation_adjusted_salary)
        /\ Numeric(response.inflation_adjusted_salary)
        /\ Numeric(response.inflation_rate)
        /\ response.category \in {PRE_1991, COLA_PERIOD, POST_2021}

\* witness of C12: a request whose inflation rate is exactly zero has been answered
C12_Witness ==
    /\ Answered /\ request.start_date = <<2024, 12, 1>>
    /\ response.inflation_rate = Whole(0)
    /\ response.inflation_adjusted_salary = request.original_salary

\* the date string spells a day of the calendar
WellFormedDate(d) ==
    /\ Len(d) = 3
    /\ d[1] \in 1..9999 /\ d[2] \in 1..12
    /\ d[3] \in 1..DaysInMonth(d[1], d[2])

C18_RoundedOnceAtBoundary ==
    Answered =>
        /\ response.inflation_adjusted_salary =
               Round2(FMul(request.original_salary,
                           FAdd(Whole(1), internal.inflation_rate)))
        /\ response.inflation_rate = Round4(internal.inflation_rate)
        /\ MiddleRegime =>
               /\ response.cola_adjusted_salary = Round2(internal.cola_adjusted_salary)
               /\ response.defacto_paycut =
                      Round2(FSub(internal.inflation_adjusted_salary,
                                  internal.cola_adjusted_salary))

\* the primary scenario of the accuracy test
PrimaryScenario ==
    /\ Answered
    /\ request = [start_date |-> <<2014, 8, 1>>, original_salary |-> Whole(57500)]

\* C19: for start date 2014-08-01 and salary 57500 the returned
\* inflation_adjusted_salary is within 500 of 76277, being 57500 * 315.6 / 237.9
\* (December 2024 over August 2014, not over the 2014 annual average), 76279.95.
C19_AccuracyPrimaryScenario ==
    PrimaryScenario =>
        LET v == response.inflation_adjusted_salary
        IN  /\ (76277 - 500) * v[2] <= v[1]
            /\ v[1] <= (76277 + 500) * v[2]
            /\ v = Round2(FMul(Whole(57500), FDiv(Tenths(3156), Tenths(2379))))
            /\ v = Frac(7627995, 100)

\* witness of C19: the scenario has been served, with rate 315.6 / 237.9 - 1
C19_Witness ==
    PrimaryScenario /\ internal.inflation_rate = Frac(3156 - 2379, 2379)


(***************************************************************************)
(* Properties of the CPI functions (checked under CpiSpec).                *)
(***************************************************************************)
Done(fn) == invocation.fn = fn /\ invocation.done

AnchorYears == {a[1] : a \in FallbackAnchors}
AnchorTenths(y) == (CHOOSE a \in FallbackAnchors : a[1] = y)[2]

RECURSIVE IPow(_, _)
IPow(b, n) == IF n = 0 THEN 1 ELSE b * IPow(b, n - 1)

\* a < b for positive rationals, by integer parts and remainders
RECURSIVE Below(_, _)
Below(a, b) ==
    IF a[1] \div a[2] # b[1] \div b[2] THEN a[1] \div a[2] < b[1] \div b[2]
    ELSE IF b[1] % b[2] = 0 THEN FALSE
    ELSE IF a[1] % a[2] = 0 THEN TRUE
    ELSE Below(<<b[2], b[1] % b[2]>>, <<a[2], a[1] % a[2]>>)

\* C13: within the anchor table's range interpolate_cpi is the piecewise-linear
\* reference: an anchor year gives the anchor's value; a year strictly between
\* adjacent anchors (y1, v1), (y2, v2) gives v1 + (year - y1) / (y2 - y1) *
\* (v2 - v1), strictly between v1 and v2 when they differ.  (Values in tenths.)
C13_PiecewiseLinear ==
    Done("interpolate_cpi") =>
        LET year == invocation.args[1]
        IN  /\ year \in AnchorYears =>
                   returned[1] * 10 = AnchorTenths(year) * returned[2]
            /\ (1913 < year /\ year < 2024 /\ year \notin AnchorYears) =>
                   LET y1 == Max({a \in AnchorYears : a < year})
                       y2 == Min({a \in AnchorYears : a > year})
                       v1 == AnchorTenths(y1)
                       v2 == AnchorTenths(y2)
                   IN  /\ returned[1] * 10 * (y2 - y1) =
                              (v1 * (y2 - y1) + (year - y1) * (v2 - v1)) * returned[2]
                       /\ v1 < v2 => /\ v1 * returned[2] < returned[1] * 10
                                     /\ returned[1] * 10 < v2 * returned[2]
                       /\ v2 < v1 => /\ v2 * returned[2] < returned[1] * 10
                                     /\ returned[1] * 10 < v1 * returned[2]

\* witness of C13: 1992, between the anchors 1991 (136.2) and 1995 (152.4), is 140.25
C13_Witness ==
    Done("interpolate_cpi") /\ invocation.args = <<1992>> /\ returned = <<561, 4>>

\* C14: below 1913 interpolate_cpi is 9.9 / 1.03^(1913 - year), smaller the
\* further back; above 2024 it is 315.6 * 1.025^(year - 2024), larger the
\* further forward.  (Both closed forms in lowest terms.)
C14_ExtrapolationMonotone ==
    Done("interpolate_cpi") =>
        LET year == invocation.args[1]
        IN  /\ year < 1913 =>
                   /\ returned = <<99 * IPow(10, 2 * (1913 - year) - 1),
                                   IPow(103, 1913 - year)>>
                   /\ Below(returned, interpolate_cpi(year + 1, fallback_cpi))
            /\ year > 2024 =>
                   /\ returned = <<789 * IPow(41, year - 2024),
                                   IPow(4, year - 2025) * IPow(10, year - 2023)>>
                   /\ Below(interpolate_cpi(year - 1, fallback_cpi), returned)

\* witness of C14: two years before the first anchor
C14_Witness ==
    Done("interpolate_cpi") /\ invocation.args = <<1911>> /\ returned = <<99000, 10609>>

\* C15: get_monthly_cpi returns the monthly anchor for every month of 2014 and
\* 2024, otherwise the annual anchor of the year when there is one, otherwise
\* the interpolated or extrapolated annual value; a monthly anchor is never
\* replaced by the annual value of its year (August 2014 is 237.9, not 236.7).
C15_TwoTierMonthly ==
    Done("get_monthly_cpi") =>
        LET year  == invocation.args[1]
            month == invocation.args[2]
        IN  /\ year = 2014 => returned = Frac(Monthly2014[month], 10)
            /\ year = 2024 => returned = Frac(Monthly2024[month], 10)
            /\ (year \notin {2014, 2024} /\ year \in AnchorYears) =>
                   returned = Frac(AnchorTenths(year), 10)
            /\ year \notin AnchorYears =>
                   returned = interpolate_cpi(year, fallback_cpi)
            /\ (year = 2014 /\ month = 8) => returned = <<2379, 10>>

\* witness of C15: a month without anchor in a year with an annual anchor
C15_Witness ==
    Done("get_monthly_cpi") /\ invocation.args = <<2016, 1>> /\ returned = Whole(240)

\* C16: get_fallback_cpi_data returns a success-shaped payload with exactly one
\* 'M13' data point for each year of the inclusive range, in order, and no
\* other; extract_cpi_for_year finds interpolate_cpi(y) for every year y of the
\* range and nothing for the years next to it; the data list is empty when
\* start_year > end_year.
C16_FallbackPayloadShape ==
    Done("get_fallback_cpi_data") =>
        LET start_year == invocation.args[1]
            end_year   == invocation.args[2]
            data       == DataOf(returned)
        IN  /\ returned.status = REQUEST_SUCCEEDED
            /\ Len(returned.Results.series) = 1
            /\ returned.Results.series[1].seriesID = cpi_series_id
            /\ Len(data) = IF start_year > end_year THEN 0
                           ELSE end_year - start_year + 1
            /\ \A i \in 1..Len(data) :
                   /\ data[i].period = "M13"
                   /\ data[i].year = Str(start_year + i - 1)
            /\ \A y \in start_year..end_year :
                   extract_cpi_for_year(AsJson(returned), y) =
                       <<"return", interpolate_cpi(y, fallback_cpi)>>
            /\ \A y \in {start_year - 1, end_year + 1} \ (start_year..end_year) :
                   extract_cpi_for_year(AsJson(returned), y) = <<"return", None>>

\* witness of C16: a range with interpolated years has been synthesized
C16_Witness ==
    /\ Done("get_fallback_cpi_data") /\ invocation.args = <<1990, 1995>>
    /\ Len(DataOf(returned)) = 6
    /\ DataOf(returned)[3].value = Str(<<561, 4>>)

\* C17: extract_cpi_for_year never raises, and returns None for every payload
\* that does not have the provider's shape or has no 'M13' point for the year.
C17_ExtractNeverRaises ==
    Done("extract_cpi_for_year") =>
        /\ returned[1] = "return"
        /\ invocation.args[1] \in MismatchedPayloads => returned[2] = None


(***************************************************************************)
(* The fallback path of get_cpi_data (checked under CacheSpec).            *)
(***************************************************************************)
\* the step in which a call ends on the fallback path
EndsOnFallback(p) == path[p] # "fallback" /\ path'[p] = "fallback"

\* the step in which the caller, whose previous call ended on the fallback
\* path, calls again for the same key
CallsAgainAfterFallback(p) ==
    /\ Returned(p) /\ path[p] = "fallback"
    /\ calls' = calls + 1 /\ outcome'[p] = "none"
    /\ key'[p] = key[p]

\* C21: a get_cpi_data call that ends on the fallback path leaves the store
\* unchanged; the store never holds a synthesized payload; and the caller's next
\* call for the same key, when the dict it loads still lacks the key, goes to
\* the remote source again.
C21_FallbackNeverCached ==
    [][/\ \A p \in Callers :
             /\ EndsOnFallback(p) =>
                    /\ cacheFile' = cacheFile
                    /\ lastData' = lastData
                    /\ ~saved'[p]
                    /\ result'[p] = get_fallback_cpi_data(key[p][1], key[p][2])
             /\ (CallsAgainAfterFallback(p) /\ ~Stored(key[p])) =>
                    /\ pc'[p] = "post"
                    /\ path'[p] = "none"
                    /\ result'[p] = NoPayload
       /\ cacheFile' # cacheFile =>
              \A k \in DOMAIN cacheFile'.data :
                  /\ cacheFile'.data[k] # get_fallback_cpi_data(k[1], k[2])
                  /\ \E rev \in Revisions :
                         cacheFile'.data[k] = RemoteSuccess(k[1], k[2], rev)]_vars

\* witness of C21: a call has ended on the fallback path, the store is as it was
\* before, and a later call for the same key is at the remote request
C21_Witness ==
    \E p \in Callers, q \in Callers :
        /\ p # q
        /\ Returned(q) /\ path[q] = "fallback"
        /\ cacheFile = AbsentFile
        /\ pc[p] = "post" /\ key[p] = key[q] /\ ~overlap[p]


(***************************************************************************)
(* The branches of interpolate_cpi (checked under CpiSpec).                *)
(***************************************************************************)
\* the conditions of the four returns of interpolate_cpi that precede the
\* default, over the built-in anchor table
ExactMatch(year) == year \in AnchorYears
BackwardExtrapolation(year) == year < Min(AnchorYears)
ForwardExtrapolation(year) == year > Max(AnchorYears)
Bracketed(year) ==
    \E y1 \in AnchorYears, y2 \in AnchorYears :
        /\ y1 < year /\ year < y2
        /\ \A y \in AnchorYears : ~(y1 < y /\ y < y2)

BranchesTaken(year) ==
    {b \in {"exact", "backward", "forward", "linear"} :
        \/ b = "exact" /\ ExactMatch(year)
        \/ b = "backward" /\ BackwardExtrapolation(year)
        \/ b = "forward" /\ ForwardExtrapolation(year)
        \/ b = "linear" /\ Bracketed(year)}

\* C22: with the built-in anchor table, every year meets the condition of
\* exactly one of exact match, backward extrapolation, forward extrapolation and
\* linear interpolation, the result is the number that branch produces (the
\* anchor; below 9.9; above 315.6; within the bracketing anchors' values), and
\* it is never the default 250.0.
C22_DefaultUnreachable ==
    Done("interpolate_cpi") =>
        LET year == invocation.args[1]
        IN  /\ Cardinality(BranchesTaken(year)) = 1
            /\ returned # None
            /\ returned # DefaultCpi
            /\ ExactMatch(year) => returned = Frac(AnchorTenths(year), 10)
            /\ BackwardExtrapolation(year) =>
                   Below(<<0, 1>>, returned) /\ Below(returned, <<99, 10>>)
            /\ ForwardExtrapolation(year) => Below(<<3156, 10>>, returned)
            /\ Bracketed(year) =>
                   LET v1 == AnchorTenths(Max({a \in AnchorYears : a < year}))
                       v2 == AnchorTenths(Min({a \in AnchorYears : a > year}))
                   IN  /\ Below(Frac(Min({v1, v2}), 10), returned)
                       /\ Below(returned, Frac(Max({v1, v2}), 10))

\* witness of C22: a year between the first two anchors, 1913 (9.9) and 1920 (20.0)
C22_Witness ==
    /\ Done("interpolate_cpi") /\ invocation.args = <<1916>>
    /\ BranchesTaken(1916) = {"linear"}
    /\ returned = <<498, 35>>


(***************************************************************************)
(* Isolation of the calculation from the cache (checked under ServiceSpec). *)
(***************************************************************************)
\* the step in which the endpoint serves the request body raw
Serves(raw) == calcVars' # calcVars /\ request' = raw

\* C23: calculate_adjusted_salary depends on the request only and touches neither
\* the cache nor the remote source: whatever the cache file holds and whatever
\* the remote source has done, serving a request changes nothing of the cache
\* file or of any get_cpi_data call (no read, no write, no fetch), and the
\* response is the one the request alone determines.
C23_ResultIndependentOfCache ==
    [][\A raw \in ServiceRequests :
          Serves(raw) =>
              /\ UNCHANGED cacheVars
              /\ rejection' = InflationRequestErrors(raw, clock)
              /\ rejection' = {} => response' = calculate_adjusted_salary(raw)]_vars

\* witness of C23: a request has been answered, the store holds a fetched series
\* for the reference year and another get_cpi_data call has ended on the fallback
C23_Witness ==
    /\ Answered
    /\ response = calculate_adjusted_salary(request)
    /\ Stored(CacheKey(2023, 2024))
    /\ Returned(ServiceCaller) /\ path[ServiceCaller] = "fallback"


(***************************************************************************)
(* Positivity of the index and sign of the rate.                           *)
(***************************************************************************)
\* a float greater than 0
Positive(x) == x[2] > 0 /\ x[1] > 0

\* C24 (under CpiSpec): for every year from 1913 on and every month
\* get_monthly_cpi returns a number greater than 0, never None or 0; both
\* operands of calculate_inflation_rate are therefore truthy and its divisor is
\* not 0, and its rate is (current - start) / start, not the value of
\* calculate_compound_inflation nor 0.025 * years.
C24_MonthlyCpiPositive ==
    (Done("get_monthly_cpi") /\ invocation.args[1] >= 1913) =>
        LET year  == invocation.args[1]
            month == invocation.args[2]
            current_cpi == get_monthly_cpi(current_year, current_month)
        IN  /\ returned # None
            /\ Positive(returned)
            /\ Truthy(returned)
            /\ Positive(current_cpi)
            /\ Truthy(current_cpi)
            /\ calculate_inflation_rate(<<year, month, 1>>) =
                   <<FDiv(FSub(current_cpi, returned), returned), current_year - year>>

\* witness of C24: a month of 2014, where the monthly index (237.4 in October)
\* and the annual average (236.7) differ
C24_Witness ==
    /\ Done("get_monthly_cpi") /\ invocation.args = <<2014, 10>>
    /\ returned = <<1187, 5>>
    /\ calculate_inflation_rate(<<2014, 10, 1>>)[1] = <<391, 1187>>


\* C25 (under CpiSpec): for every request whose start year is 1913..2024, that
\* is for every start month get_monthly_cpi is asked about (the product of line
\* 18 taken for salaries of 1 and of 10000, which keep it within 32 bits),
\* years_elapsed >= 0 and inflation_rate >= 0, so that inflation_adjusted_salary
\* = original_salary * (1 + inflation_rate) >= original_salary; the rate is 0
\* exactly for the start months whose index is the reference value 315.6.  (The
\* values are the unrounded ones of calculate_adjusted_salary, lines 17-18.)
C25_RateNeverNegative ==
    (Done("get_monthly_cpi") /\ invocation.args[1] \in 1913..2024) =>
        LET start_date == <<invocation.args[1], invocation.args[2], 1>>
            rate == calculate_inflation_rate(start_date)
        IN  /\ rate[2] >= 0
            /\ rate[2] = 2024 - start_date[1]
            /\ Numeric(rate[1])
            /\ rate[1][1] >= 0
            /\ rate[1][1] = 0 <=> returned = <<1578, 5>>
            /\ \A original_salary \in {Whole(1), Whole(10000)} :
                   LET inflation_adjusted_salary ==
                           FMul(original_salary, FAdd(Whole(1), rate[1]))
                   IN  /\ ~Below(inflation_adjusted_salary, original_salary)
                       /\ rate[1][1] = 0 <=>
                              inflation_adjusted_salary = original_salary

\* witness of C25: a start in October 2024, whose index is the reference value
C25_Witness ==
    /\ Done("get_monthly_cpi") /\ invocation.args = <<2024, 10>>
    /\ returned = <<1578, 5>>
    /\ calculate_inflation_rate(<<2024, 10, 1>>) = <<<<0, 1>>, 0>>

====
